---- MODULE Spec2Model ----
(***************************************************************************)
(* A model of tts-copilot: the ConfigManager (configuration store), the    *)
(* TextProcessor (text normalizer), the TTSEngine over the 'say' backend,  *)
(* the CopilotIntegration (suggestion source adapter) and the TTSCopilot   *)
(* orchestrator that composes them.                                        *)
(*                                                                         *)
(* Numbers of the voice configuration are modelled in tenths: pitch 1.0 is *)
(* 10, speed 0.1 is 1, volume 1.0 is 10.  A string is a sequence of        *)
(* one-character strings.  JavaScript is single-threaded: every action is  *)
(* the synchronous part of one call or of one callback of the event loop.  *)
(***************************************************************************)
EXTENDS Integers, Sequences, FiniteSets, TLC

\* ------------------------------------------------------------ bounds
\* Most tokens (a character or a fence) of an enumerated text.
MaxLen == 5

\* Most utterances whose completion callback is outstanding.
MaxUtterances == 2

\* Most pending timers of the suggestion stream.
MaxTimers == 2

\* Most registered suggestion listeners.
MaxListeners == 2

\* Most connection handshakes in progress.
MaxHandshakes == 1

\* Cells of the heap: the two records of DEFAULT_CONFIG, the two the store
\* holds and the two a snapshot holds.
HeapSize == 6

\* ------------------------------------------------------------ TextProcessor
\* Character classes of the regular expressions: a word character (\w), two
\* white-space characters (\s), the backtick and a symbol outside the allow-set.
\* The backtick, written "^" (a string of this notation cannot hold a backtick).
Tick == "^"

Chars == {"a", " ", "\n", Tick, "@"}

IsWs(c) == c \in {" ", "\n"}

\* [\w\s.,!?;:()-]
IsAllowed(c) == c \in {"a", " ", "\n"}

MaxTTSLength == 1000

\* The indices of s, in order, at which Test holds.
IndicesWhere(s, Test(_)) == SelectSeq([i \in 1..Len(s) |-> i], Test)

IsFenceAt(s, i) ==
    /\ i + 2 <= Len(s)
    /\ s[i] = Tick /\ s[i + 1] = Tick /\ s[i + 2] = Tick

\* rawText.replace(/(fence)[\s\S]*?(fence)/g, ''), a fence being three
\* backticks: the leftmost opening fence, lazily closed by the first fence that
\* starts at least three characters later; the scan resumes after the closing
\* fence.
RECURSIVE RemoveCodeBlocks(_)
RemoveCodeBlocks(s) ==
    LET opens == IndicesWhere(s, LAMBDA i : IsFenceAt(s, i))
    IN  IF opens = << >> THEN s
        ELSE LET closes == SelectSeq(opens, LAMBDA j : j >= opens[1] + 3)
             IN  IF closes = << >> THEN s
                 ELSE SubSeq(s, 1, opens[1] - 1)
                        \o RemoveCodeBlocks(SubSeq(s, closes[1] + 3, Len(s)))

\* cleanText.replace(/(tick)[^(tick)]*(tick)/g, ''): the leftmost backtick up
\* to the next one.
RECURSIVE RemoveInlineCode(_)
RemoveInlineCode(s) ==
    LET ticks == IndicesWhere(s, LAMBDA i : s[i] = Tick)
    IN  IF Len(ticks) < 2 THEN s
        ELSE SubSeq(s, 1, ticks[1] - 1)
               \o RemoveInlineCode(SubSeq(s, ticks[2] + 1, Len(s)))

\* cleanText.replace(/\s+/g, ' '): every white-space run becomes one space.
CollapseWhitespace(s) ==
    LET keep == IndicesWhere(s, LAMBDA i : ~(IsWs(s[i]) /\ i > 1 /\ IsWs(s[i - 1])))
    IN  [k \in 1..Len(keep) |-> IF IsWs(s[keep[k]]) THEN " " ELSE s[keep[k]]]

\* String.prototype.trim
Trim(s) ==
    LET solid == IndicesWhere(s, LAMBDA i : ~IsWs(s[i]))
    IN  IF solid = << >> THEN << >> ELSE SubSeq(s, solid[1], solid[Len(solid)])

\* cleanText.replace(/[^\w\s.,!?;:()-]/g, '')
RemoveSpecialChars(s) == SelectSeq(s, IsAllowed)

\* parseText without its trim() step.
parseText_NoTrim(rawText) ==
    IF rawText = << >> THEN << >>
    ELSE RemoveSpecialChars(CollapseWhitespace(
             RemoveInlineCode(RemoveCodeBlocks(rawText))))

parseText(rawText) ==
    IF rawText = << >> THEN << >>
    ELSE RemoveSpecialChars(Trim(CollapseWhitespace(
             RemoveInlineCode(RemoveCodeBlocks(rawText)))))

\* text.split(/\s+/): the pieces between the white-space runs, the empty
\* pieces at the two ends included.
Split(s) ==
    LET n == Len(s)
        starts == SelectSeq([i \in 1..(n + 1) |-> i],
                      LAMBDA i : i = 1 \/ (IsWs(s[i - 1]) /\ (i = n + 1 \/ ~IsWs(s[i]))))
        ends == SelectSeq([i \in 1..(n + 1) |-> i - 1],
                      LAMBDA e : IF e = n THEN TRUE
                                 ELSE IsWs(s[e + 1]) /\ (e = 0 \/ ~IsWs(s[e])))
    IN  [k \in 1..Len(starts) |-> SubSeq(s, starts[k], ends[k])]

\* isValidForTTS with a length check that rejects a text of exactly 1000 characters.
isValidForTTS_OffByOne(text) ==
    IF text = << >> \/ Len(Trim(text)) = 0 THEN FALSE
    ELSE IF Len(text) >= MaxTTSLength THEN FALSE
    ELSE Len(SelectSeq(Split(text), LAMBDA word : Len(word) > 0)) > 0

isValidForTTS(text) ==
    IF text = << >> \/ Len(Trim(text)) = 0 THEN FALSE
    ELSE IF Len(text) > MaxTTSLength THEN FALSE
    ELSE Len(SelectSeq(Split(text), LAMBDA word : Len(word) > 0)) > 0

\* ------------------------------------------------------------ state
VARIABLES
    heap,        \* the objects of the JavaScript heap that hold a voice or a copilot record
    config,      \* ConfigManager.config: voice and copilot are references into heap
    snap,        \* the values got from getConfig() that the caller still holds
    engine,      \* TTSEngine: voiceConfig, currentProcess
    say,         \* the 'say' backend: the utterances whose callback has not fired
    copilot,     \* CopilotIntegration: config, connected, listening, suggestionListeners
    timers,      \* pending setTimeout callbacks of simulateSuggestionStream
    handshakes,  \* pending connectToCopilotAPI handshakes
    isRunning,   \* TTSCopilot.isRunning
    lastOp,      \* the call or callback that ran last: name, argument, error, calls made
    tx,          \* TextProcessor applied to one input: text, parsed, reparsed, valid
    promises     \* the pending promises of speak a caller follows, one per utterance of say

vars == <<heap, config, snap, engine, say, copilot, timers, handshakes,
          isRunning, lastOp, tx, promises>>

sysVars == <<heap, config, snap, engine, say, copilot, timers, handshakes,
             isRunning, lastOp, promises>>

storeVars == <<heap, config, snap>>

engineVars == <<engine, say>>

copilotVars == <<copilot, timers, handshakes>>

Null == "null"

Undefined == "undefined"

NoError == "none"

\* {...a, ...b}
Spread(a, b) ==
    [k \in DOMAIN a \cup DOMAIN b |-> IF k \in DOMAIN b THEN b[k] ELSE a[k]]

\* o.k of an object whose field k is optional
Field(o, k) == IF k \in DOMAIN o THEN o[k] ELSE Undefined

\* ret is the sequence a call yields, empty for a call that yields none.
Op(name, arg, err, calls) ==
    [name |-> name, arg |-> arg, err |-> err, calls |-> calls, ret |-> << >>]

\* ------------------------------------------------------------ TextProcessor runs
TxIdle == [stage |-> "idle", text |-> << >>, parsed |-> << >>,
           reparsed |-> << >>, valid |-> FALSE]

\* The inputs: every concatenation of at most MaxLen tokens, a token being one
\* character or a fence, and texts around the length limit.
Tokens == {<<c>> : c \in Chars} \cup {<<Tick, Tick, Tick>>}

RECURSIVE Flatten(_)
Flatten(ts) == IF ts = << >> THEN << >> ELSE Head(ts) \o Flatten(Tail(ts))

ShortTexts == {Flatten(ts) : ts \in UNION {[1..n -> Tokens] : n \in 0..MaxLen}}

LongTexts ==
    {[i \in 1..n |-> c] \o t :
        c \in {"a", " "},
        n \in (MaxTTSLength - 2)..(MaxTTSLength + 1),
        t \in UNION {[1..k -> {"a", " ", "@"}] : k \in 0..2}}

TxInit == tx \in {[TxIdle EXCEPT !.stage = "input", !.text = t] :
                     t \in ShortTexts \cup LongTexts}

\* parseText(text), then parseText of the result, then isValidForTTS(text)
TxParse ==
    /\ tx.stage = "input"
    /\ tx' = [tx EXCEPT !.stage = "parsed", !.parsed = parseText(tx.text)]
    /\ UNCHANGED sysVars

TxReparse ==
    /\ tx.stage = "parsed"
    /\ tx' = [tx EXCEPT !.stage = "reparsed", !.reparsed = parseText(tx.parsed)]
    /\ UNCHANGED sysVars

TxValidate ==
    /\ tx.stage = "reparsed"
    /\ tx' = [tx EXCEPT !.stage = "done", !.valid = isValidForTTS(tx.text)]
    /\ UNCHANGED sysVars

\* ------------------------------------------------------------ ConfigManager
Refs == 1..HeapSize

Free == [free |-> TRUE]

\* DEFAULT_CONFIG.voice and DEFAULT_CONFIG.copilot: two objects of the module,
\* shared by reference with every store built without a record of its own.
DefaultVoiceRef == 1

DefaultCopilotRef == 2

DEFAULT_CONFIG ==
    [voice |-> [pitch |-> 10, speed |-> 10, volume |-> 10],
     realTimeEnabled |-> TRUE,
     copilot |-> [enabled |-> FALSE]]

SnapRefs(sn) ==
    {sn[i].voice : i \in 1..Len(sn)} \cup {sn[i].copilot : i \in 1..Len(sn)}

\* What the program can still reach; every other cell is garbage.
Live(cfg, sn) ==
    {DefaultVoiceRef, DefaultCopilotRef, cfg.voice, cfg.copilot} \cup SnapRefs(sn)

Collect(h, cfg, sn) == [r \in Refs |-> IF r \in Live(cfg, sn) THEN h[r] ELSE Free]

\* A new object: a cell nothing reachable after the assignment refers to.
NewRef(kept) == CHOOSE r \in Refs \ kept : \A q \in Refs \ kept : r <= q

\* new ConfigManager(initialConfig): { ...DEFAULT_CONFIG, ...initialConfig }.
\* A record the caller passes is stored by reference, unvalidated.
ConfigManager_constructor(initialConfig) ==
    LET vref == IF "voice" \in DOMAIN initialConfig THEN 3 ELSE DefaultVoiceRef
        cref == IF "copilot" \in DOMAIN initialConfig THEN 4 ELSE DefaultCopilotRef
        cfg == [voice |-> vref,
                realTimeEnabled |->
                    Spread(DEFAULT_CONFIG, initialConfig).realTimeEnabled,
                copilot |-> cref]
        h == [r \in Refs |->
                 CASE r = DefaultVoiceRef -> DEFAULT_CONFIG.voice
                   [] r = DefaultCopilotRef -> DEFAULT_CONFIG.copilot
                   [] r = vref -> initialConfig.voice
                   [] r = cref -> initialConfig.copilot
                   [] OTHER -> Free]
    IN  [config |-> cfg, heap |-> h]

\* getConfig(): { ...this.config }, a new top-level object whose voice and
\* copilot are the store's own objects.
ConfigManager_getConfig(cfg) ==
    [voice |-> cfg.voice, realTimeEnabled |-> cfg.realTimeEnabled,
     copilot |-> cfg.copilot]

\* The error validateVoiceConfig throws, or none.
validateVoiceConfig(voice) ==
    IF voice.pitch < 0 \/ voice.pitch > 20
        THEN "Pitch must be between 0.0 and 2.0"
    ELSE IF voice.speed < 1 \/ voice.speed > 100
        THEN "Speed must be between 0.1 and 10.0"
    ELSE IF voice.volume < 0 \/ voice.volume > 10
        THEN "Volume must be between 0.0 and 1.0"
    ELSE NoError

\* updateVoiceConfig: this.config.voice is assigned the merged record, and
\* only then validated; a throw leaves the assignment in place.
ConfigManager_updateVoiceConfig(cfg, h, sn, voiceConfig) ==
    LET merged == Spread(h[cfg.voice], voiceConfig)
        ref == NewRef({DefaultVoiceRef, DefaultCopilotRef, cfg.copilot}
                          \cup SnapRefs(sn))
        cfg2 == [cfg EXCEPT !.voice = ref]
    IN  [config |-> cfg2,
         heap |-> Collect([h EXCEPT ![ref] = merged], cfg2, sn),
         err |-> validateVoiceConfig(merged)]

\* updateCopilotConfig: merged, not validated.
ConfigManager_updateCopilotConfig(cfg, h, sn, copilotConfig) ==
    LET merged == Spread(h[cfg.copilot], copilotConfig)
        ref == NewRef({DefaultVoiceRef, DefaultCopilotRef, cfg.voice}
                          \cup SnapRefs(sn))
        cfg2 == [cfg EXCEPT !.copilot = ref]
    IN  [config |-> cfg2,
         heap |-> Collect([h EXCEPT ![ref] = merged], cfg2, sn)]

ConfigManager_setRealTimeEnabled(cfg, enabled) ==
    [cfg EXCEPT !.realTimeEnabled = enabled]

\* The configuration as a value: what the fields of a getConfig() result read.
ConfigValue(cfg, h) ==
    [voice |-> h[cfg.voice], realTimeEnabled |-> cfg.realTimeEnabled,
     copilot |-> h[cfg.copilot]]

StoredConfig == ConfigValue(config, heap)

\* ------------------------------------------------------------ one call
\* A call runs on a record of the whole state and hands one back; calls is the
\* trace of what it called on the backend and on the other components, err the
\* error it threw.
Cur ==
    [heap |-> heap, config |-> config, snap |-> snap, engine |-> engine,
     say |-> say, copilot |-> copilot, timers |-> timers,
     handshakes |-> handshakes, isRunning |-> isRunning,
     calls |-> << >>, err |-> NoError, ret |-> << >>]

Call(fn, text, voice, speed) ==
    [fn |-> fn, text |-> text, voice |-> voice, speed |-> speed]

Called(s, fn) == [s EXCEPT !.calls = Append(@, Call(fn, << >>, Null, 0))]

Throw(s, error) == [s EXCEPT !.err = error]

\* f after s, unless s threw.
Then(s, f(_)) == IF s.err = NoError THEN f(s) ELSE s

\* The state after the call, lastOp naming it.
Effect(name, arg, s) ==
    /\ heap' = s.heap
    /\ config' = s.config
    /\ snap' = s.snap
    /\ engine' = s.engine
    /\ say' = s.say
    /\ copilot' = s.copilot
    /\ timers' = s.timers
    /\ handshakes' = s.handshakes
    /\ isRunning' = s.isRunning
    /\ lastOp' = [Op(name, arg, s.err, s.calls) EXCEPT !.ret = s.ret]

\* A call whose caller follows no promise.
Commit(name, arg, s) == Effect(name, arg, s) /\ UNCHANGED <<tx, promises>>

\* ------------------------------------------------------------ TTSEngine
\* say.stop(): the backend cancels what it is speaking; the completion
\* callback of a cancelled utterance is still outstanding.
say_stop(sy) ==
    [k \in 1..Len(sy) |-> "cancelled"]

\* say.speak(text, voice, speed, callback): one more utterance, and a handle.
say_speak(sy) == Append(sy, "speaking")

Speaking(sy) == {k \in 1..Len(sy) : sy[k] = "speaking"}

\* stop() without its try and catch.
TTSEngine_stop_Rethrows(s, faults) ==
    IF s.engine.currentProcess = Null THEN s
    ELSE IF "stop" \in faults THEN Throw(Called(s, "say.stop"), "say.stop failed")
    ELSE [Called(s, "say.stop") EXCEPT
              !.say = say_stop(@),
              !.engine.currentProcess = Null]

\* TTSEngine.stop(): cancels only when a handle is held; an error of the
\* backend's stop is swallowed, and then the handle is kept.
TTSEngine_stop(s, faults) ==
    IF s.engine.currentProcess = Null THEN s
    ELSE IF "stop" \in faults THEN Called(s, "say.stop")
    ELSE [Called(s, "say.stop") EXCEPT
              !.say = say_stop(@),
              !.engine.currentProcess = Null]

\* The rate without the factor of 200.
SpeedOption_Unscaled(voiceConfig) ==
    IF voiceConfig.speed = 0 THEN 1 ELSE voiceConfig.speed

\* Math.round(this.voiceConfig.speed * 200), and options.speed || 1.0: a
\* speed of s tenths gives 20 * s, already a whole number, and a rate of 0
\* gives way to 1.
SpeedOption(voiceConfig) ==
    IF voiceConfig.speed * 20 = 0 THEN 1 ELSE voiceConfig.speed * 20

\* options.voice || null: an absent voice and the empty name give null.
VoiceOption(voiceConfig) ==
    IF Field(voiceConfig, "voice") \in {Undefined, ""} THEN Null
    ELSE voiceConfig.voice

\* TTSEngine.speak(text), up to the promise it returns: blank text resolves at
\* once; otherwise stop(), then say.speak. The promise settles in the
\* completion callback, or rejects at once when say.speak throws.
TTSEngine_speak(s, text, faults) ==
    IF text = << >> \/ Len(Trim(text)) = 0 THEN s
    ELSE LET stopped == TTSEngine_stop(s, faults)
             asked == [stopped EXCEPT !.calls =
                          Append(@, Call("say.speak", text,
                                         VoiceOption(s.engine.voiceConfig),
                                         SpeedOption(s.engine.voiceConfig)))]
         IN  IF "speak" \in faults THEN Throw(asked, "TTS Error")
             ELSE [asked EXCEPT !.say = say_speak(@),
                                !.engine.currentProcess = "handle"]

\* The completion callback with a callback that resolves whatever the
\* backend reports.
TTSEngine_onComplete_IgnoresError(s, k, error) ==
    [s EXCEPT !.engine.currentProcess = Null,
              !.say = [j \in 1..(Len(@) - 1) |-> IF j < k THEN @[j] ELSE @[j + 1]],
              !.err = NoError]

\* The completion callback of the k-th outstanding utterance: it clears
\* currentProcess whichever utterance it belongs to.
TTSEngine_onComplete(s, k, error) ==
    [s EXCEPT !.engine.currentProcess = Null,
              !.say = [j \in 1..(Len(@) - 1) |-> IF j < k THEN @[j] ELSE @[j + 1]],
              !.err = IF error THEN "TTS Error" ELSE NoError]

\* What say.getInstalledVoices does: it throws, or it calls back with an
\* error (with or without voices), with no voices, or with voices.
VoiceOutcomes ==
    {[kind |-> "throws", voices |-> << >>],
     [kind |-> "error", voices |-> << >>],
     [kind |-> "error", voices |-> <<"Alex">>],
     [kind |-> "missing", voices |-> << >>],
     [kind |-> "voices", voices |-> << >>],
     [kind |-> "voices", voices |-> <<"Alex", "Samantha">>]}

\* getAvailableVoices(): the promise resolves with the voices, or with [] on
\* an error, on a missing result and on an exception.
TTSEngine_getAvailableVoices(s, outcome) ==
    [Called(s, "say.getInstalledVoices") EXCEPT
         !.ret = IF outcome.kind = "voices" THEN outcome.voices ELSE << >>]

\* setVoiceConfig that cancels what is being spoken.
TTSEngine_setVoiceConfig_Cancels(s, voiceConfig) ==
    [TTSEngine_stop(s, {}) EXCEPT !.engine.voiceConfig = voiceConfig]

\* setVoiceConfig: { ...config }
TTSEngine_setVoiceConfig(s, voiceConfig) ==
    [s EXCEPT !.engine.voiceConfig = voiceConfig]

\* ------------------------------------------------------------ suggestion handler
\* 'function calculateSum(a, b) { return a + b; }' by character class, each run
\* of word characters and allowed punctuation written as one "a".
SuggestionText ==
    <<"a", " ", "a", " ", "a", " ", "@", " ", "a", " ", "a", " ", "@", " ",
      "a", " ", "@">>

\* handleCopilotSuggestion without its isRunning test.
TTSCopilot_handleCopilotSuggestion_Unguarded(s, suggestion, faults) ==
    LET processedText == parseText(suggestion)
    IN  IF isValidForTTS(processedText)
        THEN [TTSEngine_speak(s, processedText, faults) EXCEPT !.err = NoError]
        ELSE s

\* handleCopilotSuggestion without its try and catch: an error of speak
\* reaches the caller.
TTSCopilot_handleCopilotSuggestion_NoCatch(s, suggestion, faults) ==
    IF ~s.isRunning THEN s
    ELSE LET processedText == parseText(suggestion)
         IN  IF isValidForTTS(processedText)
             THEN TTSEngine_speak(s, processedText, faults)
             ELSE s

\* TTSCopilot.handleCopilotSuggestion, up to its await: nothing unless
\* running; speaks the parsed text when it is valid; every error is caught.
TTSCopilot_handleCopilotSuggestion(s, suggestion, faults) ==
    IF ~s.isRunning THEN s
    ELSE LET processedText == parseText(suggestion)
         IN  IF isValidForTTS(processedText)
             THEN [TTSEngine_speak(s, processedText, faults) EXCEPT !.err = NoError]
             ELSE s

\* ------------------------------------------------------------ CopilotIntegration
\* initialize that returns for a disabled config without touching connected.
CopilotIntegration_initialize_KeepsConnection(s, copilotConfig) ==
    LET held == [s EXCEPT !.copilot.config = copilotConfig]
    IN  IF ~copilotConfig.enabled THEN held
        ELSE [held EXCEPT !.handshakes = @ + 1]

\* initialize that disconnects the adapter until its handshake ends.
CopilotIntegration_initialize_DropsConnection(s, copilotConfig) ==
    LET held == [s EXCEPT !.copilot.config = copilotConfig,
                          !.copilot.connected = FALSE]
    IN  IF ~copilotConfig.enabled THEN held
        ELSE [held EXCEPT !.handshakes = @ + 1]

\* initialize(config), up to its await: the config is copied; disabled, the
\* adapter is disconnected at once; enabled, the handshake starts.
CopilotIntegration_initialize(s, copilotConfig) ==
    LET held == [s EXCEPT !.copilot.config = copilotConfig]
    IN  IF ~copilotConfig.enabled
        THEN [held EXCEPT !.copilot.connected = FALSE]
        ELSE [held EXCEPT !.handshakes = @ + 1]

\* initialize after the await of connectToCopilotAPI.
CopilotIntegration_afterConnect(s, succeeded) ==
    [s EXCEPT !.handshakes = @ - 1,
              !.copilot.connected = succeeded,
              !.err = IF succeeded THEN NoError
                      ELSE "Failed to initialize Copilot integration"]

\* simulateSuggestionStream(): one more timer while listening.
simulateSuggestionStream(s) ==
    IF ~s.copilot.listening THEN s ELSE [s EXCEPT !.timers = @ + 1]

\* startListening without its connected test.
startListening_Unguarded(s) ==
    simulateSuggestionStream([s EXCEPT !.copilot.listening = TRUE])

startListening(s) ==
    IF ~s.copilot.connected THEN Throw(s, "Copilot integration not initialized")
    ELSE simulateSuggestionStream([s EXCEPT !.copilot.listening = TRUE])

stopListening(s) == [s EXCEPT !.copilot.listening = FALSE]

onSuggestion(s, listener) ==
    [s EXCEPT !.copilot.suggestionListeners = Append(@, listener)]

\* removeSuggestionListener without the index > -1 test: splice(-1, 1) removes
\* the last listener.
removeSuggestionListener_Unguarded(s, listener) ==
    LET ls == s.copilot.suggestionListeners
        at == IndicesWhere(ls, LAMBDA i : ls[i] = listener)
    IN  IF at = << >>
        THEN [s EXCEPT !.copilot.suggestionListeners = SubSeq(ls, 1, Len(ls) - 1)]
        ELSE [s EXCEPT !.copilot.suggestionListeners =
                  SubSeq(ls, 1, at[1] - 1) \o SubSeq(ls, at[1] + 1, Len(ls))]

\* removeSuggestionListener: the first occurrence of the listener, if any, is
\* spliced out.
removeSuggestionListener(s, listener) ==
    LET ls == s.copilot.suggestionListeners
        at == IndicesWhere(ls, LAMBDA i : ls[i] = listener)
    IN  IF at = << >> THEN s
        ELSE [s EXCEPT !.copilot.suggestionListeners =
                  SubSeq(ls, 1, at[1] - 1) \o SubSeq(ls, at[1] + 1, Len(ls))]

\* The observers a client of the adapter registers: one that returns, one
\* that throws, and one that removes itself when it is invoked.
Observers == {"observer", "thrower", "once"}

\* console.error('Error in suggestion listener:', error)
ListenerErrorLogged == "Error in suggestion listener"

\* listener(suggestion): the orchestrator's bound handler, or an observer.
Invoke(s, listener, suggestion, faults) ==
    LET called == Called(s, listener)
    IN  CASE listener = "handleCopilotSuggestion" ->
                 TTSCopilot_handleCopilotSuggestion(called, suggestion, faults)
          [] listener = "thrower" -> Throw(called, "observer error")
          [] listener = "once" -> removeSuggestionListener(called, listener)
          [] OTHER -> called

\* this.suggestionListeners.forEach: indices i..n of the array as it is when
\* each index is reached (n is its length when forEach was called; an index
\* the array no longer has is skipped), each listener inside its own try,
\* whose catch logs the error.
RECURSIVE NotifyFrom(_, _, _, _, _)
NotifyFrom(s, i, n, suggestion, faults) ==
    IF i > n \/ i > Len(s.copilot.suggestionListeners) THEN s
    ELSE LET r == Invoke(s, s.copilot.suggestionListeners[i], suggestion, faults)
             caught == IF r.err = NoError THEN r
                       ELSE [Called(r, ListenerErrorLogged) EXCEPT !.err = NoError]
         IN  NotifyFrom(caught, i + 1, n, suggestion, faults)

notifySuggestionListeners(s, suggestion, faults) ==
    NotifyFrom(s, 1, Len(s.copilot.suggestionListeners), suggestion, faults)

\* The timer callback without its test of this.listening.
CopilotIntegration_deliver_Unchecked(s, suggestion, faults) ==
    simulateSuggestionStream(
        notifySuggestionListeners([s EXCEPT !.timers = @ - 1], suggestion, faults))

\* The callback of a timer of simulateSuggestionStream, for the suggestion it
\* delivers.
CopilotIntegration_deliver(s, suggestion, faults) ==
    LET fired == [s EXCEPT !.timers = @ - 1]
    IN  IF ~s.copilot.listening THEN fired
        ELSE simulateSuggestionStream(
                 notifySuggestionListeners(fired, suggestion, faults))

\* The callback with the suggestion the code delivers.
CopilotIntegration_onTimeout(s, faults) ==
    CopilotIntegration_deliver(s, SuggestionText, faults)

\* ------------------------------------------------------------ TTSCopilot
\* this.configManager.getConfig(), read field by field
GetConfigValue(s) == ConfigValue(ConfigManager_getConfig(s.config), s.heap)

\* initialize(), up to its await
TTSCopilot_initialize(s) ==
    IF GetConfigValue(s).copilot.enabled
    THEN CopilotIntegration_initialize(Called(s, "copilot.initialize"),
                                       GetConfigValue(s).copilot)
    ELSE s

\* start() without its isRunning guard.
TTSCopilot_start_Unguarded(s) ==
    LET running == [s EXCEPT !.isRunning = TRUE]
    IN  IF GetConfigValue(s).copilot.enabled /\ GetConfigValue(s).realTimeEnabled
        THEN Then(onSuggestion(Called(running, "copilot.onSuggestion"),
                               "handleCopilotSuggestion"),
                  LAMBDA r : startListening(Called(r, "copilot.startListening")))
        ELSE running

\* start() that listens whenever the source is enabled, real time or not.
TTSCopilot_start_IgnoresRealTime(s) ==
    IF s.isRunning THEN s
    ELSE LET running == [s EXCEPT !.isRunning = TRUE]
         IN  IF GetConfigValue(s).copilot.enabled
             THEN Then(onSuggestion(Called(running, "copilot.onSuggestion"),
                                    "handleCopilotSuggestion"),
                       LAMBDA r : startListening(Called(r, "copilot.startListening")))
             ELSE running

\* start(): nothing while running; otherwise running, and with the source
\* and real time both enabled the handler is registered and startListening
\* called, whose error reaches the caller.
TTSCopilot_start(s) ==
    IF s.isRunning THEN s
    ELSE LET running == [s EXCEPT !.isRunning = TRUE]
         IN  IF GetConfigValue(s).copilot.enabled
                  /\ GetConfigValue(s).realTimeEnabled
             THEN Then(onSuggestion(Called(running, "copilot.onSuggestion"),
                                    "handleCopilotSuggestion"),
                       LAMBDA r : startListening(Called(r, "copilot.startListening")))
             ELSE running

\* stop() that stops the engine and leaves the adapter listening.
TTSCopilot_stop_KeepsListening(s, faults) ==
    IF ~s.isRunning THEN s
    ELSE TTSEngine_stop(Called([s EXCEPT !.isRunning = FALSE], "ttsEngine.stop"),
                        faults)

\* stop(): nothing while idle; otherwise idle, the engine stopped and the
\* adapter told to stop listening.
TTSCopilot_stop(s, faults) ==
    IF ~s.isRunning THEN s
    ELSE stopListening(Called(
             TTSEngine_stop(Called([s EXCEPT !.isRunning = FALSE], "ttsEngine.stop"),
                            faults),
             "copilot.stopListening"))

\* speakText without the suitability check.
TTSCopilot_speakText_Unchecked(s, text, faults) ==
    TTSEngine_speak(s, parseText(text), faults)

\* speakText(text), up to its await
TTSCopilot_speakText(s, text, faults) ==
    LET processedText == parseText(text)
    IN  IF ~isValidForTTS(processedText)
        THEN Throw(s, "Text is not suitable for TTS conversion")
        ELSE TTSEngine_speak(s, processedText, faults)

\* updateVoiceConfig that updates the store and leaves the engine alone.
TTSCopilot_updateVoiceConfig_NoPropagate(s, voiceConfig) ==
    LET r == ConfigManager_updateVoiceConfig(s.config, s.heap, s.snap, voiceConfig)
        updated == [s EXCEPT !.config = r.config, !.heap = r.heap]
    IN  IF r.err # NoError THEN Throw(updated, r.err) ELSE updated

TTSCopilot_updateVoiceConfig(s, voiceConfig) ==
    LET r == ConfigManager_updateVoiceConfig(s.config, s.heap, s.snap, voiceConfig)
        updated == [s EXCEPT !.config = r.config, !.heap = r.heap]
    IN  IF r.err # NoError THEN Throw(updated, r.err)
        ELSE TTSEngine_setVoiceConfig(updated, GetConfigValue(updated).voice)

\* updateCopilotConfig(copilotConfig), up to its await
TTSCopilot_updateCopilotConfig(s, copilotConfig) ==
    LET r == ConfigManager_updateCopilotConfig(s.config, s.heap, s.snap,
                                               copilotConfig)
        updated == [s EXCEPT !.config = r.config, !.heap = r.heap]
    IN  IF GetConfigValue(updated).copilot.enabled
        THEN CopilotIntegration_initialize(Called(updated, "copilot.initialize"),
                                           GetConfigValue(updated).copilot)
        ELSE updated

\* setRealTimeEnabled that also stops the service when it disables.
TTSCopilot_setRealTimeEnabled_Stops(s, enabled) ==
    LET set == [s EXCEPT !.config = ConfigManager_setRealTimeEnabled(@, enabled)]
    IN  IF enabled /\ s.isRunning
        THEN IF GetConfigValue(set).copilot.enabled
             THEN startListening(Called(set, "copilot.startListening"))
             ELSE set
        ELSE stopListening(Called([set EXCEPT !.isRunning = FALSE],
                                  "copilot.stopListening"))

\* setRealTimeEnabled that stores the flag and, disabling, leaves the adapter
\* alone.
TTSCopilot_setRealTimeEnabled_KeepsListening(s, enabled) ==
    LET set == [s EXCEPT !.config = ConfigManager_setRealTimeEnabled(@, enabled)]
    IN  IF enabled /\ s.isRunning
        THEN IF GetConfigValue(set).copilot.enabled
             THEN startListening(Called(set, "copilot.startListening"))
             ELSE set
        ELSE set

TTSCopilot_setRealTimeEnabled(s, enabled) ==
    LET set == [s EXCEPT !.config = ConfigManager_setRealTimeEnabled(@, enabled)]
    IN  IF enabled /\ s.isRunning
        THEN IF GetConfigValue(set).copilot.enabled
             THEN startListening(Called(set, "copilot.startListening"))
             ELSE set
        ELSE stopListening(Called(set, "copilot.stopListening"))

\* ------------------------------------------------------------ construction
EmptyRecord == [k \in {} |-> k]

\* new TTSCopilot(initialConfig): the store, an engine holding a copy of the
\* store's voice record, and a disconnected adapter.
Constructed(initialConfig) ==
    LET cm == ConfigManager_constructor(initialConfig)
    IN  /\ heap = cm.heap
        /\ config = cm.config
        /\ snap = << >>
        /\ engine = [voiceConfig |-> cm.heap[cm.config.voice],
                     currentProcess |-> Null]
        /\ say = << >>
        /\ copilot = [config |-> [enabled |-> FALSE], connected |-> FALSE,
                      listening |-> FALSE, suggestionListeners |-> << >>]
        /\ timers = 0
        /\ handshakes = 0
        /\ isRunning = FALSE
        /\ lastOp = Op("new", initialConfig, NoError, << >>)
        /\ promises = << >>

\* The configurations the tests and the example construct with.
InitialConfigs == {EmptyRecord, [copilot |-> [enabled |-> TRUE]]}

Init == /\ \E initialConfig \in InitialConfigs : Constructed(initialConfig)
        /\ tx = TxIdle

\* The counters the model caps.
WithinBounds(s) ==
    /\ Len(s.say) <= MaxUtterances
    /\ s.timers <= MaxTimers
    /\ s.handshakes <= MaxHandshakes
    /\ Len(s.copilot.suggestionListeners) <= MaxListeners

Do(name, arg, s) == WithinBounds(s) /\ Commit(name, arg, s)

\* ------------------------------------------------------------ inputs
\* Texts spoken: a word, and inline code only (nothing is left to speak).
Texts == {<<"a">>, <<Tick, "a", Tick>>}

\* A partial voice record within the ranges.
VoiceUpdates == {[speed |-> 20]}

CopilotUpdates == {[enabled |-> TRUE], [enabled |-> FALSE]}

NoFaults == {}

\* ------------------------------------------------------------ TTSCopilot, called
Initialize == Do("TTSCopilot.initialize", << >>, TTSCopilot_initialize(Cur))

Start == Do("TTSCopilot.start", << >>, TTSCopilot_start(Cur))

Stop == Do("TTSCopilot.stop", << >>, TTSCopilot_stop(Cur, NoFaults))

SpeakText ==
    \E text \in Texts :
        Do("TTSCopilot.speakText", [text |-> text], TTSCopilot_speakText(Cur, text, NoFaults))

UpdateVoiceConfig ==
    \E voiceConfig \in VoiceUpdates :
        Do("TTSCopilot.updateVoiceConfig", voiceConfig,
           TTSCopilot_updateVoiceConfig(Cur, voiceConfig))

UpdateCopilotConfig ==
    \E copilotConfig \in CopilotUpdates :
        Do("TTSCopilot.updateCopilotConfig", copilotConfig,
           TTSCopilot_updateCopilotConfig(Cur, copilotConfig))

SetRealTimeEnabled ==
    \E enabled \in BOOLEAN :
        Do("TTSCopilot.setRealTimeEnabled", [enabled |-> enabled],
           TTSCopilot_setRealTimeEnabled(Cur, enabled))

\* ------------------------------------------------------------ the event loop
\* The backend completes an outstanding utterance, with or without an error.
SayCallback ==
    \E k \in 1..Len(say), error \in BOOLEAN :
        Do("say.callback", [utterance |-> k], TTSEngine_onComplete(Cur, k, error))

\* A timer of the suggestion stream fires.
Timeout ==
    /\ timers > 0
    /\ Do("setTimeout.callback", << >>, CopilotIntegration_onTimeout(Cur, NoFaults))

\* A connection handshake ends: the placeholder connectToCopilotAPI only ever
\* resolves.
Connect ==
    /\ handshakes > 0
    /\ Do("connectToCopilotAPI.settled", [succeeded |-> TRUE],
          CopilotIntegration_afterConnect(Cur, TRUE))

Next ==
    \/ Initialize
    \/ Start
    \/ Stop
    \/ SpeakText
    \/ UpdateVoiceConfig
    \/ UpdateCopilotConfig
    \/ SetRealTimeEnabled
    \/ SayCallback
    \/ Timeout
    \/ Connect

Spec == Init /\ [][Next]_vars

\* ------------------------------------------------------------ TextProcessor alone
TextInit == Constructed(EmptyRecord) /\ TxInit

TextNext == TxParse \/ TxReparse \/ TxValidate

TextSpec == TextInit /\ [][TextNext]_vars

\* ------------------------------------------------------------ ConfigManager alone
\* Partial voice records: each field just outside and just inside its range,
\* two fields at once, and a voice name.
StoreVoiceUpdates ==
    {[pitch |-> p] : p \in {-1, 0, 20, 21}}
        \cup {[speed |-> v] : v \in {0, 1, 100, 101}}
        \cup {[volume |-> v] : v \in {-1, 0, 10, 11}}
        \cup {[pitch |-> 12, speed |-> 15], [voice |-> "Alex"]}

StoreCopilotUpdates ==
    {[enabled |-> TRUE], [enabled |-> FALSE],
     [enabled |-> TRUE, apiUrl |-> "https://api.example.com", apiKey |-> "test-key"]}

CM_UpdateVoiceConfig(updates) ==
    \E voiceConfig \in updates :
        LET r == ConfigManager_updateVoiceConfig(config, heap, snap, voiceConfig)
        IN  Commit("ConfigManager.updateVoiceConfig", voiceConfig,
                   [Cur EXCEPT !.config = r.config, !.heap = r.heap, !.err = r.err])

CM_UpdateCopilotConfig(updates) ==
    \E copilotConfig \in updates :
        LET r == ConfigManager_updateCopilotConfig(config, heap, snap, copilotConfig)
        IN  Commit("ConfigManager.updateCopilotConfig", copilotConfig,
                   [Cur EXCEPT !.config = r.config, !.heap = r.heap])

CM_SetRealTimeEnabled ==
    \E enabled \in BOOLEAN :
        Commit("ConfigManager.setRealTimeEnabled", [enabled |-> enabled],
               [Cur EXCEPT !.config = ConfigManager_setRealTimeEnabled(@, enabled)])

StoreNext ==
    \/ CM_UpdateVoiceConfig(StoreVoiceUpdates)
    \/ CM_UpdateCopilotConfig(StoreCopilotUpdates)
    \/ CM_SetRealTimeEnabled

StoreSpec == Init /\ [][StoreNext]_vars

\* ------------------------------------------------------------ a caller of getConfig
\* The caller keeps the value getConfig() returned, in place of the last one.
CM_GetConfig ==
    LET got == <<ConfigManager_getConfig(config)>>
    IN  Commit("ConfigManager.getConfig", << >>,
               [Cur EXCEPT !.snap = got, !.heap = Collect(@, config, got)])

\* The caller assigns fields of the voice record of the value it holds.
CallerWritesVoice ==
    /\ snap # << >>
    /\ \E written \in {[pitch |-> 5], [pitch |-> 30]} :
           Commit("caller.write", [voice |-> written],
                  [Cur EXCEPT !.heap[snap[1].voice] = Spread(@, written)])

\* The caller assigns fields of the copilot record of the value it holds.
CallerWritesCopilot ==
    /\ snap # << >>
    /\ \E written \in {[enabled |-> TRUE]} :
           Commit("caller.write", [copilot |-> written],
                  [Cur EXCEPT !.heap[snap[1].copilot] = Spread(@, written)])

\* The caller assigns a top-level field of the value it holds.
CallerWritesTopLevel ==
    /\ snap # << >>
    /\ \E enabled \in BOOLEAN :
           Commit("caller.write", [realTimeEnabled |-> enabled],
                  [Cur EXCEPT !.snap[1].realTimeEnabled = enabled])

AliasNext ==
    \/ CM_UpdateVoiceConfig({[pitch |-> 15]})
    \/ CM_UpdateCopilotConfig({[enabled |-> FALSE]})
    \/ CM_GetConfig
    \/ CallerWritesVoice
    \/ CallerWritesCopilot
    \/ CallerWritesTopLevel

AliasSpec == Init /\ [][AliasNext]_vars

\* ------------------------------------------------------------ TTSEngine alone
EngineTexts == {<< >>, <<" ">>, <<"a">>}

EngineVoiceConfigs ==
    {[pitch |-> 10, speed |-> 10, volume |-> 10],
     [pitch |-> 10, speed |-> 15, volume |-> 10, voice |-> "Alex"]}

E_Speak ==
    \E text \in EngineTexts :
        Do("TTSEngine.speak", [text |-> text], TTSEngine_speak(Cur, text, NoFaults))

E_Stop == Do("TTSEngine.stop", << >>, TTSEngine_stop(Cur, NoFaults))

E_SetVoiceConfig ==
    \E voiceConfig \in EngineVoiceConfigs :
        Do("TTSEngine.setVoiceConfig", voiceConfig,
           TTSEngine_setVoiceConfig(Cur, voiceConfig))

EngineNext == E_Speak \/ E_Stop \/ E_SetVoiceConfig \/ SayCallback

EngineSpec == Init /\ [][EngineNext]_vars

\* ------------------------------------------------------------ speakText at the length limit
\* Texts at the length limit: 1000 and 1001 word characters, 1000 word
\* characters and a symbol, and a word after 1001 spaces.
LimitTexts ==
    {<< >>, <<" ">>, <<"@">>,
     [i \in 1..MaxTTSLength |-> "a"],
     [i \in 1..(MaxTTSLength + 1) |-> "a"],
     [i \in 1..MaxTTSLength |-> "a"] \o <<"@">>,
     [i \in 1..(MaxTTSLength + 1) |-> " "] \o <<"a">>}

SpeakAnyText ==
    \E text \in Texts \cup LimitTexts :
        Do("TTSCopilot.speakText", [text |-> text],
           TTSCopilot_speakText(Cur, text, NoFaults))

\* Partial voice records: one within the ranges and one outside.
SpeakVoiceUpdates == {[speed |-> 20], [pitch |-> 21]}

SpeakUpdateVoiceConfig ==
    \E voiceConfig \in SpeakVoiceUpdates :
        Do("TTSCopilot.updateVoiceConfig", voiceConfig,
           TTSCopilot_updateVoiceConfig(Cur, voiceConfig))

SpeakNext == SpeakAnyText \/ SpeakUpdateVoiceConfig \/ SayCallback

SpeakSpec == Init /\ [][SpeakNext]_vars

\* ------------------------------------------------------------ CopilotIntegration alone
\* A client drives the adapter through its public methods; the handshake of
\* connectToCopilotAPI, a placeholder for the connection to the service, ends
\* either way, the catch of initialize handling its failure.
A_Initialize ==
    \E copilotConfig \in CopilotUpdates :
        Do("CopilotIntegration.initialize", copilotConfig,
           CopilotIntegration_initialize(Cur, copilotConfig))

A_Connect ==
    /\ handshakes > 0
    /\ \E succeeded \in BOOLEAN :
           Do("connectToCopilotAPI.settled", [succeeded |-> succeeded],
              CopilotIntegration_afterConnect(Cur, succeeded))

A_StartListening ==
    Do("CopilotIntegration.startListening", << >>, startListening(Cur))

A_StopListening ==
    Do("CopilotIntegration.stopListening", << >>, stopListening(Cur))

A_OnSuggestion ==
    \E listener \in Observers :
        Do("CopilotIntegration.onSuggestion", [listener |-> listener],
           onSuggestion(Cur, listener))

A_RemoveSuggestionListener ==
    \E listener \in Observers :
        Do("CopilotIntegration.removeSuggestionListener", [listener |-> listener],
           removeSuggestionListener(Cur, listener))

AdapterNext ==
    \/ A_Initialize
    \/ A_Connect
    \/ A_StartListening
    \/ A_StopListening
    \/ A_OnSuggestion
    \/ A_RemoveSuggestionListener
    \/ Timeout

AdapterInit == Constructed(EmptyRecord) /\ tx = TxIdle

AdapterSpec == AdapterInit /\ [][AdapterNext]_vars

\* ------------------------------------------------------------ the suggestion handler
\* The suggestions delivered: the one of simulateSuggestionStream and one
\* that normalizes to the empty text.
SuggestionTexts == {SuggestionText, <<"@">>}

\* say.speak returns, or throws.
SpeakFaults == {{}, {"speak"}}

EnabledInit == Constructed([copilot |-> [enabled |-> TRUE]]) /\ tx = TxIdle

\* The bound handler, registered by start(), invoked by its holder.
H_Deliver ==
    /\ copilot.suggestionListeners # << >>
    /\ \E suggestion \in SuggestionTexts, faults \in SpeakFaults :
           Do("handleCopilotSuggestion",
              [text |-> suggestion, sayThrows |-> "speak" \in faults],
              TTSCopilot_handleCopilotSuggestion(Cur, suggestion, faults))

HandlerNext ==
    \/ Initialize
    \/ Connect
    \/ Start
    \/ Stop
    \/ SayCallback
    \/ Timeout
    \/ H_Deliver

HandlerSpec == EnabledInit /\ [][HandlerNext]_vars

\* ------------------------------------------------------------ the listening loop
\* A timer of the suggestion stream fires, for any suggestion, the backend
\* failing or not.
L_Timeout ==
    /\ timers > 0
    /\ \E suggestion \in SuggestionTexts, faults \in SpeakFaults :
           Do("setTimeout.callback",
              [text |-> suggestion, sayThrows |-> "speak" \in faults],
              CopilotIntegration_deliver(Cur, suggestion, faults))

LoopNext ==
    \/ Initialize
    \/ Connect
    \/ Start
    \/ Stop
    \/ SayCallback
    \/ L_Timeout

LoopSpec == EnabledInit /\ [][LoopNext]_vars

\* ------------------------------------------------------------ voice updates
\* Partial voice records: within the ranges, outside them, and one that
\* brings the pitch back within them and names a voice.
VoiceRepairs ==
    {[speed |-> 20], [pitch |-> 21], [pitch |-> 15, voice |-> "Alex"]}

V_UpdateVoiceConfig ==
    \E voiceConfig \in VoiceRepairs :
        Do("TTSCopilot.updateVoiceConfig", voiceConfig,
           TTSCopilot_updateVoiceConfig(Cur, voiceConfig))

VoiceNext == V_UpdateVoiceConfig \/ SpeakText \/ SayCallback

VoiceSpec == Init /\ [][VoiceNext]_vars

\* ------------------------------------------------------------ TTSEngine over a failing backend
StopFaults == {{}, {"stop"}}

F_Speak ==
    \E text \in EngineTexts, faults \in SUBSET {"stop", "speak"} :
        Do("TTSEngine.speak",
           [text |-> text, stopThrows |-> "stop" \in faults,
            sayThrows |-> "speak" \in faults],
           TTSEngine_speak(Cur, text, faults))

F_Stop ==
    \E faults \in StopFaults :
        Do("TTSEngine.stop", [stopThrows |-> "stop" \in faults],
           TTSEngine_stop(Cur, faults))

F_GetAvailableVoices ==
    \E outcome \in VoiceOutcomes :
        Do("TTSEngine.getAvailableVoices", outcome,
           TTSEngine_getAvailableVoices(Cur, outcome))

FaultNext == F_Speak \/ F_Stop \/ F_GetAvailableVoices \/ SayCallback

FaultSpec == Init /\ [][FaultNext]_vars

\* ------------------------------------------------------------ the rate of an utterance
\* The voice records the engine is given: every speed from 0 to 10.0 in
\* tenths without a voice name, and the default speed with a voice name and
\* with the empty name.
RateVoiceConfigs ==
    {[pitch |-> 10, speed |-> v, volume |-> 10] : v \in 0..100}
        \cup {[pitch |-> 10, speed |-> 10, volume |-> 10, voice |-> n] :
                  n \in {"Alex", ""}}

R_SetVoiceConfig ==
    \E voiceConfig \in RateVoiceConfigs :
        Do("TTSEngine.setVoiceConfig", voiceConfig,
           TTSEngine_setVoiceConfig(Cur, voiceConfig))

R_Speak ==
    Do("TTSEngine.speak", [text |-> <<"a">>],
       TTSEngine_speak(Cur, <<"a">>, NoFaults))

RateInit == Constructed(EmptyRecord) /\ tx = TxIdle

RateNext == R_SetVoiceConfig \/ R_Speak \/ SayCallback

RateSpec == RateInit /\ [][RateNext]_vars

\* ------------------------------------------------------------ the suggestion source reconfigured
\* Partial copilot records: the source enabled, disabled, and a key alone.
SourceUpdates == {[enabled |-> TRUE], [enabled |-> FALSE], [apiKey |-> "test-key"]}

S_UpdateCopilotConfig ==
    \E copilotConfig \in SourceUpdates :
        Do("TTSCopilot.updateCopilotConfig", copilotConfig,
           TTSCopilot_updateCopilotConfig(Cur, copilotConfig))

SourceNext ==
    \/ S_UpdateCopilotConfig
    \/ Connect
    \/ Start
    \/ Stop
    \/ SetRealTimeEnabled
    \/ Timeout

SourceSpec == Init /\ [][SourceNext]_vars

\* ------------------------------------------------------------ the promises of speak
\* A caller follows the promise of every speak call: promises[k] names the
\* promise that the callback of the utterance say[k] settles.
PromiseIds == 1..MaxUtterances

Pending == {promises[k] : k \in 1..Len(promises)}

NewPromise == CHOOSE id \in PromiseIds \ Pending : \A q \in PromiseIds \ Pending : id <= q

\* speak(text): blank text resolves at once, a throw of say.speak rejects at
\* once, and otherwise the promise is pending until the callback.
P_Speak ==
    \E text \in {<<" ">>, <<"a">>}, faults \in SUBSET {"stop", "speak"} :
        LET r == TTSEngine_speak(Cur, text, faults)
        IN  /\ WithinBounds(r)
            /\ Effect("TTSEngine.speak",
                      [text |-> text, stopThrows |-> "stop" \in faults,
                       sayThrows |-> "speak" \in faults], r)
            /\ promises' = IF Len(r.say) > Len(say)
                           THEN Append(promises, NewPromise) ELSE promises
            /\ UNCHANGED tx

P_Stop ==
    \E faults \in StopFaults :
        Do("TTSEngine.stop", [stopThrows |-> "stop" \in faults],
           TTSEngine_stop(Cur, faults))

\* The backend invokes the callback of the utterance of the promise id,
\* spoken to its end or cancelled, with or without an error.
P_Callback(id) ==
    \E k \in 1..Len(say), error \in BOOLEAN :
        /\ promises[k] = id
        /\ Effect("say.callback",
                  [utterance |-> k, promise |-> id, error |-> error,
                   was |-> say[k]],
                  TTSEngine_onComplete(Cur, k, error))
        /\ promises' = [j \in 1..(Len(promises) - 1) |->
                           IF j < k THEN promises[j] ELSE promises[j + 1]]
        /\ UNCHANGED tx

SettleInit == Constructed(EmptyRecord) /\ tx = TxIdle

SettleNext == P_Speak \/ P_Stop \/ \E id \in PromiseIds : P_Callback(id)

\* The backend invokes the callback of every utterance it was given.
SettleSpec ==
    /\ SettleInit
    /\ [][SettleNext]_vars
    /\ \A id \in PromiseIds : WF_vars(P_Callback(id))

\* ------------------------------------------------------------ the suggestion stream, its timer fair
\* A timer of the suggestion stream fires; successive callbacks are told
\* apart by their number modulo 2.
N_Timeout ==
    /\ timers > 0
    /\ Do("setTimeout.callback",
          [nth |-> IF lastOp.name = "setTimeout.callback"
                   THEN 1 - lastOp.arg.nth ELSE 0],
          CopilotIntegration_onTimeout(Cur, NoFaults))

ListenNext ==
    \/ A_Initialize
    \/ A_Connect
    \/ A_StartListening
    \/ A_StopListening
    \/ A_OnSuggestion
    \/ A_RemoveSuggestionListener
    \/ N_Timeout

\* A pending timer fires in the end.
ListenSpec == AdapterInit /\ [][ListenNext]_vars /\ WF_vars(N_Timeout)

\* ------------------------------------------------------------ claims
OutOfRange(voice) ==
    \/ voice.pitch < 0 \/ voice.pitch > 20
    \/ voice.speed < 1 \/ voice.speed > 100
    \/ voice.volume < 0 \/ voice.volume > 10

Unsuitable == "Text is not suitable for TTS conversion"

\* C1: an updateVoiceConfig whose merged record is out of range fails and
\* leaves the stored voice record as it was before the call.
C1_RejectedUpdateLeavesVoice ==
    [][(/\ lastOp'.name = "ConfigManager.updateVoiceConfig"
        /\ OutOfRange(Spread(StoredConfig.voice, lastOp'.arg)))
           => (/\ lastOp'.err # NoError
               /\ StoredConfig'.voice = StoredConfig.voice)]_vars

\* C2: after any sequence of updateVoiceConfig, updateCopilotConfig and
\* setRealTimeEnabled calls the stored voice record is within its ranges.
C2_StoredVoiceInRange == ~OutOfRange(StoredConfig.voice)

\* C3: whatever the caller writes into a value it got from getConfig, what
\* later getConfig calls read is unchanged.
C3_GetConfigNeverAliases ==
    [][lastOp'.name = "caller.write" => StoredConfig' = StoredConfig]_vars

Reparsed == tx.stage \in {"reparsed", "done"}

\* C4 as claimed: parseText(parseText(x)) = parseText(x) for every x.
C4_Idempotent == Reparsed => tx.reparsed = tx.parsed

\* The last step of parseText, the character filter, removes nothing from x.
FilterRemovesNothing(x) ==
    LET collapsed == Trim(CollapseWhitespace(RemoveInlineCode(RemoveCodeBlocks(x))))
    IN  RemoveSpecialChars(collapsed) = collapsed

\* C4 as amended: parseText(parseText(x)) = parseText(x) for every x from which
\* the character filter removes nothing; for every x, parseText(parseText(x))
\* is parseText(x) with its white-space runs collapsed and its ends trimmed.
C4_IdempotentUnlessFiltered ==
    Reparsed =>
        /\ FilterRemovesNothing(tx.text) => tx.reparsed = tx.parsed
        /\ tx.reparsed = Trim(CollapseWhitespace(tx.parsed))

\* C4's case: a text with a code block and nothing for the filter to remove,
\* parsed twice to the same non-empty text.
C4_Witness ==
    /\ Reparsed
    /\ FilterRemovesNothing(tx.text)
    /\ \E i \in 1..Len(tx.text) : IsFenceAt(tx.text, i)
    /\ tx.parsed # << >>
    /\ tx.parsed # tx.text

\* C5: isValidForTTS(text) is false exactly when the trimmed text is empty or
\* the text is longer than 1000 characters.
C5_ValidIffNonBlankAndShort ==
    tx.stage = "done" =>
        (tx.valid = FALSE <=> (Len(Trim(tx.text)) = 0 \/ Len(tx.text) > 1000))

\* C5's case: a text of exactly 1000 characters found valid.
C5_Witness == tx.stage = "done" /\ Len(tx.text) = 1000 /\ tx.valid

\* The normalized form of text is blank or longer than 1000 characters.
Unspeakable(text) ==
    LET normalized == parseText(text)
    IN  Len(Trim(normalized)) = 0 \/ Len(normalized) > 1000

\* C6: speakText of a text whose normalized form is not speakable fails with
\* the unspeakable-text error and calls nothing: the engine and the backend,
\* an utterance in flight included, are as before.
C6_UnspeakableNeverReachesBackend ==
    [][(lastOp'.name = "TTSCopilot.speakText" /\ Unspeakable(lastOp'.arg.text))
           => (/\ lastOp'.err = Unsuitable
               /\ lastOp'.calls = << >>
               /\ UNCHANGED <<engine, say>>)]_vars

\* C6's case: a 1001-character text refused while an utterance is in flight.
C6_Witness ==
    /\ lastOp.name = "TTSCopilot.speakText"
    /\ Len(lastOp.arg.text) = 1001
    /\ lastOp.err = Unsuitable
    /\ Speaking(say) # {}
    /\ engine.currentProcess # Null

\* say.stop is called before say.speak in the trace of calls.
StopsThenSpeaks(calls) ==
    \E i, j \in 1..Len(calls) :
        i < j /\ calls[i].fn = "say.stop" /\ calls[j].fn = "say.speak"

\* C7: speak with non-blank text while the backend is speaking an utterance
\* whose callback has not fired cancels before it dispatches, and so the
\* backend never speaks two utterances at once.
C7_OneUtteranceAtATime ==
    /\ [][(/\ lastOp'.name = "TTSEngine.speak"
           /\ Len(Trim(lastOp'.arg.text)) > 0
           /\ Speaking(say) # {})
              => StopsThenSpeaks(lastOp'.calls)]_vars
    /\ [](Cardinality(Speaking(say)) <= 1)

\* C8: start() while running and stop() while idle change nothing and call
\* nothing.
C8_StartStopIdempotent ==
    [][/\ (lastOp'.name = "TTSCopilot.start" /\ isRunning)
            => (/\ isRunning'
                /\ lastOp'.calls = << >>
                /\ lastOp'.err = NoError
                /\ UNCHANGED <<heap, config, snap, engine, say, copilot, timers,
                               handshakes>>)
       /\ (lastOp'.name = "TTSCopilot.stop" /\ ~isRunning)
            => (/\ ~isRunning'
                /\ lastOp'.calls = << >>
                /\ lastOp'.err = NoError
                /\ UNCHANGED <<heap, config, snap, engine, say, copilot, timers,
                               handshakes>>)]_vars

\* C8's case: start() has just returned without a call although the stored
\* config would have made an idle start() register the observer: it ran
\* while running.
C8_Witness ==
    /\ lastOp.name = "TTSCopilot.start"
    /\ lastOp.calls = << >>
    /\ StoredConfig.copilot.enabled /\ StoredConfig.realTimeEnabled
    /\ isRunning

\* C9: only start() and stop() change isRunning.
C9_OnlyStartStopChangeRunning ==
    [][isRunning' # isRunning
           => lastOp'.name \in {"TTSCopilot.start", "TTSCopilot.stop"}]_vars

\* C9's case: a synthesis error has just reached a running orchestrator.
C9_Witness ==
    /\ lastOp.name = "say.callback"
    /\ lastOp.err = "TTS Error"
    /\ isRunning

\* C10: while the stored copilot config has enabled false, the adapter is
\* disconnected.
C10_DisabledMeansDisconnected ==
    ~StoredConfig.copilot.enabled => ~copilot.connected

ConnectionFailed == "Failed to initialize Copilot integration"

\* C11: initialize with enabled false leaves the adapter disconnected, from a
\* connected state too, and starts no handshake; a handshake that succeeds
\* leaves the adapter connected, one that fails leaves it disconnected and
\* fails with the connection error.
C11_InitializeSetsConnection ==
    [][/\ (lastOp'.name = "CopilotIntegration.initialize" /\ ~lastOp'.arg.enabled)
            => (/\ ~copilot'.connected
                /\ copilot'.config = lastOp'.arg
                /\ handshakes' = handshakes
                /\ lastOp'.err = NoError)
       /\ (lastOp'.name = "CopilotIntegration.initialize" /\ lastOp'.arg.enabled)
            => (/\ copilot'.config = lastOp'.arg
                /\ copilot'.connected = copilot.connected
                /\ handshakes' = handshakes + 1)
       /\ lastOp'.name = "connectToCopilotAPI.settled"
            => IF lastOp'.arg.succeeded
               THEN copilot'.connected /\ lastOp'.err = NoError
               ELSE ~copilot'.connected /\ lastOp'.err = ConnectionFailed]_vars

\* C11's case: initialize with enabled false has just disconnected an adapter
\* that was listening, hence connected, with no handshake pending.
C11_Witness ==
    /\ lastOp.name = "CopilotIntegration.initialize"
    /\ ~lastOp.arg.enabled
    /\ copilot.listening
    /\ handshakes = 0
    /\ ~copilot.connected

NotInitialized == "Copilot integration not initialized"

\* C12: startListening on an adapter that is not connected fails with the
\* not-initialized error and changes nothing: the listening flag, the
\* listeners and the timers are as before.
C12_StartListeningNeedsConnection ==
    [][(lastOp'.name = "CopilotIntegration.startListening" /\ ~copilot.connected)
           => (/\ lastOp'.err = NotInitialized
               /\ UNCHANGED <<copilot, timers>>)]_vars

\* C12's case: startListening refused while the handshake of an initialize is
\* still pending; the adapter is not listening and no timer is scheduled.
C12_Witness ==
    /\ lastOp.name = "CopilotIntegration.startListening"
    /\ lastOp.err = NotInitialized
    /\ handshakes = 1
    /\ ~copilot.listening
    /\ timers = 0

Registered(listener) ==
    \E i \in 1..Len(copilot.suggestionListeners) :
        copilot.suggestionListeners[i] = listener

\* C14: removeSuggestionListener of a listener that is not registered throws
\* nothing and leaves the listener list as it was.
C14_RemoveUnregisteredIsNoOp ==
    [][(/\ lastOp'.name = "CopilotIntegration.removeSuggestionListener"
        /\ ~Registered(lastOp'.arg.listener))
           => (/\ lastOp'.err = NoError
               /\ UNCHANGED <<copilot, timers>>)]_vars

\* C14's case: an unregistered listener removed from a list of two others.
C14_Witness ==
    /\ lastOp.name = "CopilotIntegration.removeSuggestionListener"
    /\ ~Registered(lastOp.arg.listener)
    /\ Len(copilot.suggestionListeners) = 2

\* C15: stopListening clears the listening flag and nothing else, so that a
\* second stopListening changes nothing; a timer that fires while the flag is
\* clear invokes no listener and schedules no timer.
C15_NoDeliveryAfterStopListening ==
    [][/\ lastOp'.name = "CopilotIntegration.stopListening"
            => (/\ copilot' = [copilot EXCEPT !.listening = FALSE]
                /\ timers' = timers
                /\ lastOp'.err = NoError)
       /\ (lastOp'.name = "setTimeout.callback" /\ ~copilot.listening)
            => (/\ lastOp'.calls = << >>
                /\ copilot' = copilot
                /\ timers' = timers - 1)]_vars

\* C15's case: a timer scheduled while listening has fired after
\* stopListening, with listeners registered, and invoked none.
C15_Witness ==
    /\ lastOp.name = "setTimeout.callback"
    /\ lastOp.calls = << >>
    /\ ~copilot.listening
    /\ copilot.connected
    /\ copilot.suggestionListeners # << >>

\* The listeners a call invoked, in the order of their invocation.
InvokedListeners(calls) ==
    LET fns == [i \in 1..Len(calls) |-> calls[i].fn]
    IN  SelectSeq(fns, LAMBDA fn : fn \in Observers \cup {"handleCopilotSuggestion"})

\* C13: a delivery invokes every registered listener exactly once, in
\* registration order, whatever a listener throws, and throws nothing itself.
C13_EveryObserverOncePerDelivery ==
    [][(lastOp'.name = "setTimeout.callback" /\ copilot.listening)
           => (/\ lastOp'.err = NoError
               /\ InvokedListeners(lastOp'.calls) = copilot.suggestionListeners)]_vars

Dispatches(calls) == \E i \in 1..Len(calls) : calls[i].fn = "say.speak"

\* C16: a suggestion handed to the orchestrator's handler while the
\* orchestrator is not running dispatches no utterance: the engine and the
\* backend are as before.
C16_HandlerSpeaksOnlyWhileRunning ==
    [][(/\ lastOp'.name \in {"handleCopilotSuggestion", "setTimeout.callback"}
        /\ ~isRunning)
           => (/\ ~Dispatches(lastOp'.calls)
               /\ UNCHANGED <<engine, say>>)]_vars

\* C16's case: the handler has just been given the speakable suggestion
\* while idle, an utterance of an earlier suggestion still outstanding.
C16_Witness ==
    /\ lastOp.name = "handleCopilotSuggestion"
    /\ lastOp.arg.text = SuggestionText
    /\ ~isRunning
    /\ say # << >>
    /\ lastOp.calls = << >>

Logged(calls) == \E i \in 1..Len(calls) : calls[i].fn = ListenerErrorLogged

\* C17: whatever suggestion a timer delivers while the adapter is listening,
\* and whether or not its synthesis fails, the handler is invoked and raises
\* nothing to the adapter, the delivery raises nothing, the adapter stays
\* listening with its next timer scheduled and the orchestrator stays as it
\* was; a synthesis that fails in its completion callback changes none of these.
C17_BadSuggestionKeepsLoop ==
    [][/\ (lastOp'.name = "setTimeout.callback" /\ copilot.listening)
            => (/\ lastOp'.err = NoError
                /\ InvokedListeners(lastOp'.calls) = copilot.suggestionListeners
                /\ ~Logged(lastOp'.calls)
                /\ copilot' = copilot
                /\ timers' = timers
                /\ isRunning' = isRunning)
       /\ lastOp'.name = "say.callback"
            => UNCHANGED <<copilot, timers, isRunning>>]_vars

\* C17's case: the backend has just thrown on the utterance of a delivered
\* suggestion; the adapter is listening, a timer is pending, the orchestrator
\* is running.
C17_Witness ==
    /\ lastOp.name = "setTimeout.callback"
    /\ lastOp.arg.sayThrows
    /\ Dispatches(lastOp.calls)
    /\ copilot.listening
    /\ timers > 0
    /\ isRunning

\* C18: after an updateVoiceConfig of the orchestrator that returns without
\* an error, the engine's voice record equals the store's, which is within
\* the ranges.
C18_EngineVoiceFollowsStore ==
    [][(lastOp'.name = "TTSCopilot.updateVoiceConfig" /\ lastOp'.err = NoError)
           => (/\ engine'.voiceConfig = StoredConfig'.voice
               /\ ~OutOfRange(StoredConfig'.voice))]_vars

\* C18's case: an update has just succeeded on top of an earlier one, an
\* utterance in flight.
C18_Witness ==
    /\ lastOp.name = "TTSCopilot.updateVoiceConfig"
    /\ lastOp.err = NoError
    /\ lastOp.arg = [pitch |-> 15, voice |-> "Alex"]
    /\ engine.voiceConfig = [pitch |-> 15, speed |-> 20, volume |-> 10,
                             voice |-> "Alex"]
    /\ say # << >>

\* setRealTimeEnabled(true) is called while running with the source enabled.
EnablesWhileRunning ==
    /\ lastOp'.name = "TTSCopilot.setRealTimeEnabled"
    /\ lastOp'.arg.enabled
    /\ isRunning
    /\ StoredConfig.copilot.enabled

\* C19 as claimed: setRealTimeEnabled(b) stores b; with b false the adapter
\* ends not listening; with b true while running and the source enabled the
\* adapter ends listening.
C19_RealTimeSwitchesListening ==
    [][/\ lastOp'.name = "TTSCopilot.setRealTimeEnabled"
            => (/\ StoredConfig'.realTimeEnabled = lastOp'.arg.enabled
                /\ ~lastOp'.arg.enabled => ~copilot'.listening)
       /\ EnablesWhileRunning => copilot'.listening]_vars

\* C19 as amended: setRealTimeEnabled(b) stores b; with b false the adapter
\* ends not listening and nothing is thrown; with b true while running and the
\* source enabled the adapter ends listening if it is connected, and if it is
\* not, the call fails with the not-initialized error and the adapter is as
\* before.
C19_RealTimeSwitchesListeningIfConnected ==
    [][/\ lastOp'.name = "TTSCopilot.setRealTimeEnabled"
            => (/\ StoredConfig'.realTimeEnabled = lastOp'.arg.enabled
                /\ ~lastOp'.arg.enabled
                      => (~copilot'.listening /\ lastOp'.err = NoError))
       /\ EnablesWhileRunning
            => IF copilot.connected
               THEN copilot'.listening /\ lastOp'.err = NoError
               ELSE lastOp'.err = NotInitialized /\ copilot' = copilot]_vars

\* C19's case: real-time processing has just been enabled on a running
\* orchestrator that was not listening, and the adapter listens.
C19_Witness ==
    /\ lastOp.name = "TTSCopilot.setRealTimeEnabled"
    /\ lastOp.arg.enabled
    /\ lastOp.err = NoError
    /\ isRunning
    /\ StoredConfig.copilot.enabled
    /\ copilot.listening
    /\ timers = 1

\* C20: stop() throws nothing, whether or not the backend's stop throws;
\* getAvailableVoices throws nothing and yields the voices the backend
\* reports, and the empty sequence when the backend reports an error or no
\* voices or throws.
C20_StopAndVoicesNeverThrow ==
    [][/\ lastOp'.name = "TTSEngine.stop" => lastOp'.err = NoError
       /\ lastOp'.name = "TTSEngine.getAvailableVoices"
            => (/\ lastOp'.err = NoError
                /\ lastOp'.ret = IF lastOp'.arg.kind = "voices"
                                  THEN lastOp'.arg.voices ELSE << >>)]_vars

\* C20's case: stop() has just returned although the backend's stop threw;
\* the utterance it could not cancel is still being spoken.
C20_Witness ==
    /\ lastOp.name = "TTSEngine.stop"
    /\ lastOp.arg.stopThrows
    /\ lastOp.err = NoError
    /\ \E i \in 1..Len(lastOp.calls) : lastOp.calls[i].fn = "say.stop"
    /\ Speaking(say) # {}

\* The say.speak calls of a trace of calls.
Dispatched(calls) == SelectSeq(calls, LAMBDA c : c.fn = "say.speak")

\* C21: an utterance dispatched while the engine holds a speed from 0.1 to
\* 10.0 is given to the backend with the rate 200 times the speed, never the
\* fallback rate 1, and with the voice name the engine holds, or with no
\* voice when it holds no name or the empty name.
C21_RateIsSpeedTimes200 ==
    [][(lastOp'.name = "TTSEngine.speak" /\ engine.voiceConfig.speed \in 1..100)
           => \A i \in 1..Len(Dispatched(lastOp'.calls)) :
                  LET c == Dispatched(lastOp'.calls)[i]
                  IN  /\ c.speed = 20 * engine.voiceConfig.speed
                      /\ c.speed # 1
                      /\ c.voice = IF Field(engine.voiceConfig, "voice")
                                          \in {Undefined, ""}
                                   THEN Null ELSE engine.voiceConfig.voice]_vars

\* C21's case: an utterance has just been dispatched at the lowest speed,
\* 0.1, with the rate 20.
C21_Witness ==
    /\ lastOp.name = "TTSEngine.speak"
    /\ engine.voiceConfig.speed = 1
    /\ Len(Dispatched(lastOp.calls)) = 1
    /\ Dispatched(lastOp.calls)[1].speed = 20

\* start() is called while idle.
StartsFromIdle == lastOp'.name = "TTSCopilot.start" /\ ~isRunning

\* The stored config has the source and real time both enabled.
ListensOnStart == StoredConfig.copilot.enabled /\ StoredConfig.realTimeEnabled

HandlerRegistered ==
    copilot'.suggestionListeners =
        Append(copilot.suggestionListeners, "handleCopilotSuggestion")

\* C22 as claimed: start() while idle leaves the orchestrator running; with
\* the source and real time both enabled it registers the handler and leaves
\* the adapter listening, and otherwise it registers nothing and leaves the
\* adapter not listening.
C22_StartListensWhenEnabled ==
    [][StartsFromIdle
           => (/\ isRunning'
               /\ IF ListensOnStart
                  THEN HandlerRegistered /\ copilot'.listening
                  ELSE copilot' = copilot /\ ~copilot'.listening)]_vars

\* C22 as amended: start() while idle leaves the orchestrator running; with
\* the source and real time both enabled it registers the handler and, the
\* adapter connected, leaves it listening, while with the adapter not
\* connected it fails with the not-initialized error, the handler registered
\* and the adapter not listening; otherwise it registers nothing, throws
\* nothing and leaves the adapter not listening.
C22_StartListensWhenEnabledAndConnected ==
    [][StartsFromIdle
           => (/\ isRunning'
               /\ IF ListensOnStart
                  THEN /\ HandlerRegistered
                       /\ IF copilot.connected
                          THEN copilot'.listening /\ lastOp'.err = NoError
                          ELSE /\ ~copilot'.listening
                               /\ lastOp'.err = NotInitialized
                  ELSE /\ copilot' = copilot
                       /\ ~copilot'.listening
                       /\ lastOp'.err = NoError)]_vars

\* C22's case: start() has just registered the handler, the first listener,
\* on a connected adapter, which listens with its first timer scheduled.
C22_Witness ==
    /\ lastOp.name = "TTSCopilot.start"
    /\ lastOp.err = NoError
    /\ copilot.connected
    /\ copilot.suggestionListeners = <<"handleCopilotSuggestion">>
    /\ copilot.listening
    /\ timers = 1
    /\ isRunning

\* C23: an updateCopilotConfig whose merged config has enabled true stores
\* the merged config and starts a handshake, and when the handshake ends the
\* adapter is connected and nothing is thrown; neither the call nor the end
\* of the handshake changes whether the adapter listens, and an adapter that
\* is connected while a handshake is pending stays connected.
C23_ReinitializeKeepsConnection ==
    [][/\ (/\ lastOp'.name = "TTSCopilot.updateCopilotConfig"
           /\ Spread(StoredConfig.copilot, lastOp'.arg).enabled)
            => (/\ StoredConfig'.copilot = Spread(StoredConfig.copilot, lastOp'.arg)
                /\ copilot'.config = StoredConfig'.copilot
                /\ handshakes' = handshakes + 1
                /\ copilot'.connected = copilot.connected
                /\ copilot'.listening = copilot.listening
                /\ lastOp'.err = NoError)
       /\ lastOp'.name = "connectToCopilotAPI.settled"
            => (/\ copilot'.connected
                /\ copilot'.listening = copilot.listening
                /\ lastOp'.err = NoError)
       /\ (handshakes > 0 /\ copilot.connected) => copilot'.connected]_vars

\* C23's case: the handshake of a re-initialization has just ended on an
\* adapter that was listening, hence connected, all along; the store holds
\* the key merged with enabled true.
C23_Witness ==
    /\ lastOp.name = "connectToCopilotAPI.settled"
    /\ copilot.listening
    /\ copilot.connected
    /\ StoredConfig.copilot = [enabled |-> TRUE, apiKey |-> "test-key"]
    /\ copilot.config = StoredConfig.copilot

\* C24: setVoiceConfig replaces the record the engine holds and does nothing
\* else: it calls nothing on the backend, and the utterances in flight and
\* the handle are as before; every utterance is dispatched with the rate and
\* the voice of the record the engine holds when speak is called.
C24_VoiceConfigAppliesToNextSpeak ==
    [][/\ lastOp'.name = "TTSEngine.setVoiceConfig"
            => (/\ engine'.voiceConfig = lastOp'.arg
                /\ engine'.currentProcess = engine.currentProcess
                /\ say' = say
                /\ lastOp'.calls = << >>
                /\ lastOp'.err = NoError)
       /\ lastOp'.name = "TTSEngine.speak"
            => (/\ engine'.voiceConfig = engine.voiceConfig
                /\ \A i \in 1..Len(Dispatched(lastOp'.calls)) :
                       LET c == Dispatched(lastOp'.calls)[i]
                       IN  /\ c.speed = SpeedOption(engine.voiceConfig)
                           /\ c.voice = VoiceOption(engine.voiceConfig))]_vars

\* C24's case: the engine has just been given a voice record other than the
\* one it held while an utterance is being spoken, which is still spoken.
C24_Witness ==
    /\ lastOp.name = "TTSEngine.setVoiceConfig"
    /\ lastOp.arg.speed = 15
    /\ engine.voiceConfig.speed = 15
    /\ engine.currentProcess # Null
    /\ Cardinality(Speaking(say)) = 1

\* Every field the partial record supplies is within its range.
SuppliedWithinRange(partial) ==
    /\ "pitch" \in DOMAIN partial => partial.pitch \in 0..20
    /\ "speed" \in DOMAIN partial => partial.speed \in 1..100
    /\ "volume" \in DOMAIN partial => partial.volume \in 0..10

\* C25: whatever the store holds, an updateVoiceConfig whose supplied fields
\* are all within their ranges succeeds and leaves the stored voice record
\* with the supplied fields as supplied and its other fields as they were.
C25_InRangeUpdateSucceeds ==
    [][(/\ lastOp'.name = "ConfigManager.updateVoiceConfig"
        /\ SuppliedWithinRange(lastOp'.arg))
           => (/\ lastOp'.err = NoError
               /\ StoredConfig'.voice = Spread(StoredConfig.voice, lastOp'.arg))]_vars

SynthesisError == "TTS Error"

Settled(id) == lastOp.name = "say.callback" /\ lastOp.arg.promise = id

\* C26: the backend invoking the callback of every utterance it was given,
\* cancelled ones included, the promise of every speak call settles: with
\* blank text it resolves at once, when say.speak throws it fails at once
\* with the synthesis error, and otherwise it is pending until the callback
\* of its own utterance, which comes, and which resolves it when it reports
\* no error and fails it with the synthesis error when it reports one.
C26_EverySpeakSettles ==
    /\ [][/\ lastOp'.name = "TTSEngine.speak"
              => (IF Len(Trim(lastOp'.arg.text)) = 0
                  THEN lastOp'.err = NoError /\ promises' = promises
                  ELSE IF lastOp'.arg.sayThrows
                  THEN lastOp'.err = SynthesisError /\ promises' = promises
                  ELSE /\ lastOp'.err = NoError
                       /\ Len(promises') = Len(promises) + 1)
          /\ lastOp'.name = "say.callback"
              => (/\ lastOp'.err = IF lastOp'.arg.error
                                   THEN SynthesisError ELSE NoError
                  /\ Pending' = Pending \ {lastOp'.arg.promise})
          /\ lastOp'.name = "TTSEngine.stop" => promises' = promises]_vars
    /\ \A id \in PromiseIds : (id \in Pending) ~> Settled(id)

\* C26's case: the callback of an utterance that a later speak cancelled has
\* just failed its promise, the promise of the later speak still pending.
C26_Witness ==
    /\ lastOp.name = "say.callback"
    /\ lastOp.arg.was = "cancelled"
    /\ lastOp.arg.error
    /\ lastOp.err = SynthesisError
    /\ Cardinality(Speaking(say)) = 1
    /\ Len(promises) = 1

\* A timer fires while the adapter listens.
Delivery == N_Timeout /\ copilot.listening

\* A delivery that invokes every registered listener, once, in order.
DeliveryToAll ==
    /\ Delivery
    /\ InvokedListeners(lastOp'.calls) = copilot.suggestionListeners

\* C27: a pending timer firing in the end, an adapter that listens from some
\* point on, after a stopListening and a startListening too, delivers to
\* all its registered listeners again and again.
C27_DeliveriesNeverEnd ==
    []<>(~copilot.listening) \/ []<><<DeliveryToAll>>_vars

\* The timers alone: an adapter that listens from some point on has a timer
\* fire while it listens again and again.
TimerNeverEnds ==
    []<>(~copilot.listening) \/ []<><<Delivery>>_vars

\* The registrations of the orchestrator's handler with the adapter.
HandlerRegistrations ==
    {i \in 1..Len(copilot.suggestionListeners) :
        copilot.suggestionListeners[i] = "handleCopilotSuggestion"}

\* C28: whatever start() and stop() calls were made, the adapter holds at
\* most one registration of the orchestrator's handler, and a delivery
\* dispatches at most one utterance.
C28_AtMostOneHandler ==
    /\ [](Cardinality(HandlerRegistrations) <= 1)
    /\ [][lastOp'.name = "setTimeout.callback"
              => Len(Dispatched(lastOp'.calls)) <= 1]_vars

\* C29: whatever startListening and stopListening calls were made, at most
\* one timer of the suggestion stream is pending.
C29_AtMostOneTimer == timers <= 1

\* C30: a start() that fails leaves the orchestrator idle.
C30_FailedStartStaysIdle ==
    [][(lastOp'.name = "TTSCopilot.start" /\ lastOp'.err # NoError)
           => ~isRunning']_vars

\* C31: while the orchestrator is running and the adapter listening, the
\* orchestrator's handler is registered with the adapter.
C31_ListeningHasHandler ==
    (isRunning /\ copilot.listening) => HandlerRegistrations # {}

\* C32: stop() while the backend is speaking an utterance whose callback has
\* not fired calls the backend's stop, whichever callbacks have fired before.
C32_StopCancelsInFlight ==
    [][(lastOp'.name = "TTSEngine.stop" /\ Speaking(say) # {})
           => \E i \in 1..Len(lastOp'.calls) : lastOp'.calls[i].fn = "say.stop"]_vars

\* C33: the voice record the engine holds equals the one the store holds,
\* after an updateVoiceConfig that failed too.
C33_EngineVoiceEqualsStore == engine.voiceConfig = StoredConfig.voice

\* C34: the adapter listens only while the orchestrator is running.
C34_ListeningOnlyWhileRunning == copilot.listening => isRunning

\* C34's case: stop() has just ended the listening of a running
\* orchestrator; the timer scheduled while it listened is still pending.
C34_Witness ==
    /\ lastOp.name = "TTSCopilot.stop"
    /\ \E i \in 1..Len(lastOp.calls) : lastOp.calls[i].fn = "copilot.stopListening"
    /\ ~isRunning
    /\ ~copilot.listening
    /\ copilot.connected
    /\ timers > 0

\* C35: the adapter listens only while the stored config has real time and
\* the source both enabled.
C35_ListeningOnlyWhileEnabled ==
    copilot.listening =>
        (StoredConfig.realTimeEnabled /\ StoredConfig.copilot.enabled)

\* C36: the adapter listens only while it is connected, and a timer delivers
\* to the listeners only while it is connected.
C36_ListeningOnlyWhileConnected ==
    /\ [](copilot.listening => copilot.connected)
    /\ [][(lastOp'.name = "setTimeout.callback" /\ ~copilot.connected)
              => InvokedListeners(lastOp'.calls) = << >>]_vars

====
